---- MODULE Spec2Model ----
(***************************************************************************)
(* A model of plaso's lib/event.py: the EventContainer tree (Append, the   *)
(* cached first/last timestamps, __len__, GetValue, ordered iteration) and *)
(* the EventObject protobuf codec (ToProto / FromProto).                   *)
(*                                                                         *)
(* The code is Python 2 (unicode, long): comparisons between integers      *)
(* never raise, str is the byte string type, bool is a subclass of int,    *)
(* and an object that defines __len__ but not __nonzero__ is false when    *)
(* its length is 0.                                                        *)
(***************************************************************************)
EXTENDS Integers, Sequences, FiniteSets, TLC

VARIABLES
  events,            \* EventContainer.events: container -> sequence of events
  containers,        \* EventContainer.containers: container -> sequence of containers
  first_timestamp,   \* EventContainer.first_timestamp
  last_timestamp,    \* EventContainer.last_timestamp
  parent_container,  \* parent_container of every event and container
  attributes,        \* the attribute store of every event and container
  call,              \* the last call made: <<operation, self, argument>>
  raised,            \* the exception the last call raised, "" when it returned
  nCalls,            \* number of calls made so far
  modified,          \* containers that hold a container changed after it was appended
  proto              \* the message the last ToProto returned

vars == <<events, containers, first_timestamp, last_timestamp,
          parent_container, attributes, call, raised, nCalls, modified,
          proto>>

-----------------------------------------------------------------------------
(* Bounds *)

MaxCalls == 4

EventIds == {"e1", "e2", "e3"}
ContainerIds == {"c1", "c2"}
\* An object that is neither an EventObject nor an EventContainer.
Other == "other"
Nodes == EventIds \cup ContainerIds
None == "None"
\* Timestamps given to events: negative, zero and positive int64 values.
Timestamps == {-1, 0, 1}

EventOrder == <<"e1", "e2", "e3">>

\* No message yet.
NoProto == [type |-> "none"]

-----------------------------------------------------------------------------
(* Values.  A Python value is a pair <<type, payload>>.                     *)

\* An attribute store (or a dict) that holds nothing.
NoAttributes == [a \in {} |-> 0]

IntV(i) == <<"int", i>>
\* Values set on containers and read through their descendants.
SharedValues == {IntV(1), IntV(2)}
\* The nodes that are given an attribute of their own besides the timestamp.
AttrHolders == ContainerIds \cup {"e1"}
TypeOf(v) == v[1]
Payload(v) == v[2]

Ok(v) == <<"ok", v>>
AttributeError == <<"AttributeError">>
IsOk(r) == r[1] = "ok"

-----------------------------------------------------------------------------
(* EventContainer.__len__ *)

RECURSIVE SumLen(_, _)
RECURSIVE Length(_)
SumLen(seq, i) ==
  IF i > Len(seq) THEN 0 ELSE Length(seq[i]) + SumLen(seq, i + 1)

Length(c) == Len(events[c]) + SumLen(containers[c], 1)

\* "if self.parent_container:" -- the truth value of a container is taken
\* from __len__, so a parent that holds no event anywhere below it is false.
ParentIsTrue(n) ==
  /\ parent_container[n] # None
  /\ Length(parent_container[n]) # 0

-----------------------------------------------------------------------------
(* Attribute resolution *)

HasLocal(n, attr) == attr \in DOMAIN attributes[n]

RECURSIVE GetValue(_, _)
GetValue(c, attr) ==
  IF HasLocal(c, attr) THEN Ok(attributes[c][attr])
  ELSE IF ParentIsTrue(c) THEN GetValue(parent_container[c], attr)
  ELSE AttributeError

\* EventObject.__getattr__ for a name that is not a class attribute.
EventGetAttr(e, attr) ==
  IF HasLocal(e, attr) THEN Ok(attributes[e][attr])
  ELSE IF ParentIsTrue(e) THEN GetValue(parent_container[e], attr)
  ELSE AttributeError

\* GetValue on any node: containers have the method, events resolve a name
\* through __getattr__.
NodeGetValue(n, attr) ==
  IF n \in ContainerIds THEN GetValue(n, attr) ELSE EventGetAttr(n, attr)

-----------------------------------------------------------------------------
(* The subtree of a container *)

Range(seq) == {seq[i] : i \in 1..Len(seq)}

\* The containers reached from those of S in at most n steps along the
\* child-container sequences.
RECURSIVE Reach(_, _)
Reach(S, n) ==
  IF n = 0 THEN S
  ELSE Reach(S \cup UNION {Range(containers[d]) : d \in S}, n - 1)

\* The containers below c.  The walk is as long as there are containers, so
\* it ends where the child-container sequences form a cycle as well.
Descendants(c) == Reach(Range(containers[c]), Cardinality(ContainerIds))

\* Containers of the subtree rooted at c, c included.
Subtree(c) == {c} \cup Descendants(c)

\* Every event held, directly or transitively, by c.
SubtreeEvents(c) == UNION {Range(events[d]) : d \in Subtree(c)}

\* The containers that hold c below them.
Ancestors(c) == {a \in ContainerIds : c \in Descendants(a)}

-----------------------------------------------------------------------------
(* EventContainer.Append and _Append *)

\* "not x" for an optional integer: <<>> is None, <<i>> the integer i.
Not(opt) == opt = <<>> \/ opt[1] = 0

_Append(self, item, storage, timestamp_first, timestamp_last) ==
  LET tl == IF Not(timestamp_last) THEN timestamp_first ELSE timestamp_last[1]
      l1 == IF last_timestamp[self] = 0 THEN tl ELSE last_timestamp[self]
      f1 == IF first_timestamp[self] = 0 THEN timestamp_first
            ELSE first_timestamp[self]
      l2 == IF tl > l1 THEN tl ELSE l1
      f2 == IF timestamp_first < f1 THEN timestamp_first ELSE f1
  IN /\ parent_container' = [parent_container EXCEPT ![item] = self]
     /\ events' = IF storage = "events"
                  THEN [events EXCEPT ![self] = Append(@, item)] ELSE events
     /\ containers' = IF storage = "containers"
                      THEN [containers EXCEPT ![self] = Append(@, item)]
                      ELSE containers
     /\ last_timestamp' = [last_timestamp EXCEPT ![self] = l2]
     /\ first_timestamp' = [first_timestamp EXCEPT ![self] = f2]

\* A slip Append could make: the item is stored before its timestamp is
\* resolved, and the failure leaves it in the container.
AppendFailsAfterStoring(self, item) ==
  /\ raised' = "NotAnEventContainerOrObject"
  /\ events' = [events EXCEPT ![self] = Append(@, item)]
  /\ UNCHANGED <<containers, first_timestamp, last_timestamp,
                 parent_container, modified>>

\* Append raised: item.timestamp did not resolve, or the item is of neither
\* class; _Append was never entered.
AppendFails(self, item) ==
  /\ raised' = "NotAnEventContainerOrObject"
  /\ UNCHANGED <<events, containers, first_timestamp, last_timestamp,
                 parent_container, modified>>

AppendCall(self, item) ==
  /\ nCalls < MaxCalls
  /\ nCalls' = nCalls + 1
  /\ call' = <<"Append", self, item>>
  /\ UNCHANGED <<attributes, proto>>
  /\ IF item \in EventIds
     THEN LET ts == EventGetAttr(item, "timestamp")
          IN IF IsOk(ts)
             THEN /\ _Append(self, item, "events", Payload(ts[2]), <<>>)
                  /\ raised' = ""
                  /\ modified' = modified \cup Ancestors(self)
             ELSE AppendFails(self, item)
     ELSE IF item \in ContainerIds
     THEN /\ _Append(self, item, "containers", first_timestamp[item],
                     <<last_timestamp[item]>>)
          /\ raised' = ""
          /\ modified' = modified \cup Ancestors(self)
                           \cup (IF item \in modified THEN {self} ELSE {})
     ELSE AppendFails(self, item)

\* Append of an EventObject, an EventContainer or another object.  A
\* container is only given containers that do not hold it (and not itself).
AppendEvent(self, item) == item \in EventIds /\ AppendCall(self, item)

AppendContainer(self, item) ==
  /\ item \in ContainerIds
  /\ item # self
  /\ self \notin Descendants(item)
  /\ AppendCall(self, item)

AppendOther(self) == AppendCall(self, Other)

\* Append of an EventContainer, whichever it is: Append tests the class of
\* the item and nothing else, so the container itself and the containers
\* that hold it are taken like any other.
AppendAnyContainer(self, item) == item \in ContainerIds /\ AppendCall(self, item)

-----------------------------------------------------------------------------
(* EventContainer.__iter__: heapq over (event.timestamp, event) tuples      *)

\* The heap holds tuples; Python compares them element by element, and two
\* event objects by their identity.  ord ranks the identities.
TupleLess(a, b, ord) ==
  \/ a[1] < b[1]
  \/ a[1] = b[1] /\ ord[a[2]] < ord[b[2]]

\* heapq._siftdown, positions counted from 0 as in Python.
RECURSIVE SiftDownLoop(_, _, _, _, _)
SiftDownLoop(heap, startpos, pos, newitem, ord) ==
  IF pos > startpos
  THEN LET parentpos == (pos - 1) \div 2
           parent == heap[parentpos + 1]
       IN IF TupleLess(newitem, parent, ord)
          THEN SiftDownLoop([heap EXCEPT ![pos + 1] = parent],
                            startpos, parentpos, newitem, ord)
          ELSE [heap EXCEPT ![pos + 1] = newitem]
  ELSE [heap EXCEPT ![pos + 1] = newitem]

_siftdown(heap, startpos, pos, ord) ==
  SiftDownLoop(heap, startpos, pos, heap[pos + 1], ord)

\* heapq._siftup: the smaller child is moved up until a leaf is reached.
RECURSIVE SiftUpLoop(_, _, _, _)
SiftUpLoop(heap, pos, childpos, ord) ==
  IF childpos < Len(heap)
  THEN LET rightpos == childpos + 1
           c == IF /\ rightpos < Len(heap)
                   /\ ~TupleLess(heap[childpos + 1], heap[rightpos + 1], ord)
                THEN rightpos ELSE childpos
       IN SiftUpLoop([heap EXCEPT ![pos + 1] = heap[c + 1]], c, 2 * c + 1, ord)
  ELSE <<heap, pos>>

_siftup(heap, pos, ord) ==
  LET newitem == heap[pos + 1]
      r == SiftUpLoop(heap, pos, 2 * pos + 1, ord)
  IN _siftdown([r[1] EXCEPT ![r[2] + 1] = newitem], pos, r[2], ord)

heappush(heap, item, ord) ==
  LET h == Append(heap, item) IN _siftdown(h, 0, Len(h) - 1, ord)

\* A slip: the last element replaces the root and is not sifted.
heappopNoSift(heap, ord) ==
  LET lastelt == heap[Len(heap)]
      rest == SubSeq(heap, 1, Len(heap) - 1)
  IN IF rest # <<>> THEN <<rest[1], [rest EXCEPT ![1] = lastelt]>>
     ELSE <<lastelt, rest>>

\* heapq.heappop: <<the smallest item, the heap without it>>.
heappop(heap, ord) ==
  LET lastelt == heap[Len(heap)]
      rest == SubSeq(heap, 1, Len(heap) - 1)
  IN IF rest # <<>>
     THEN <<rest[1], _siftup([rest EXCEPT ![1] = lastelt], 0, ord)>>
     ELSE <<lastelt, rest>>

\* event.timestamp of an event whose timestamp resolves.
TimestampOf(e) == Payload(EventGetAttr(e, "timestamp")[2])

RECURSIVE PushEvents(_, _, _, _)
PushEvents(heap, seq, i, ord) ==
  IF i > Len(seq) THEN heap
  ELSE PushEvents(heappush(heap, <<TimestampOf(seq[i]), seq[i]>>, ord),
                  seq, i + 1, ord)

RECURSIVE Drain(_, _)
Drain(heap, ord) ==
  IF heap = <<>> THEN <<>>
  ELSE LET r == heappop(heap, ord) IN <<r[1][2]>> \o Drain(r[2], ord)

RECURSIVE Iter(_, _)
RECURSIVE PushContainers(_, _, _, _)
PushContainers(heap, seq, i, ord) ==
  IF i > Len(seq) THEN heap
  ELSE PushContainers(PushEvents(heap, Iter(seq[i], ord), 1, ord),
                      seq, i + 1, ord)

\* list(container): the events in the order the generator yields them.
Iter(c, ord) ==
  Drain(PushContainers(PushEvents(<<>>, events[c], 1, ord),
                       containers[c], 1, ord), ord)

\* The ways the identities of the event objects may be ordered.
ObjectOrders ==
  {f \in [EventIds -> 1..Cardinality(EventIds)] :
     \A a, b \in EventIds : a # b => f[a] # f[b]}

-----------------------------------------------------------------------------
(* Python values held by attribute stores.  A text is a sequence of code    *)
(* points, a byte string a sequence of bytes; FloatV(n) is the float n/2.   *)

UnicodeV(t) == <<"unicode", t>>
StrV(b) == <<"str", b>>
BoolV(b) == <<"bool", b>>
FloatV(n) == <<"float", n>>
DictV(f) == <<"dict", f>>
ListV(l) == <<"list", l>>
\* An ASCII str used as a source_short, given by its text.
NameV(n) == <<"name", n>>

Scalars ==
  {UnicodeV(<<>>), UnicodeV(<<97>>), StrV(<<97>>), StrV(<<255>>),
   IntV(0), IntV(1), BoolV(FALSE), BoolV(TRUE), FloatV(0), FloatV(3)}

ListsOf(V) == {ListV(<<>>)} \cup {ListV(<<v>>) : v \in V}
DictsOf(V) == {DictV(NoAttributes)} \cup {DictV([k \in {"a"} |-> v]) : v \in V}

NestedOnce == Scalars \cup ListsOf(Scalars) \cup DictsOf(Scalars)

\* The values given to dynamic attributes: every scalar, and lists and
\* mappings nested twice, with the two structures of the round-trip example.
Values ==
  NestedOnce \cup ListsOf(NestedOnce) \cup DictsOf(NestedOnce)
    \cup {ListV(<<IntV(1), IntV(2), IntV(3)>>),
          DictV([k \in {"a", "b"} |->
                   IF k = "a" THEN IntV(1) ELSE UnicodeV(<<97>>)])}

\* bool(value)
Truthy(v) ==
  CASE TypeOf(v) \in {"unicode", "str", "list"} -> Len(Payload(v)) # 0
    [] TypeOf(v) \in {"int", "float"} -> Payload(v) # 0
    [] TypeOf(v) = "bool" -> Payload(v)
    [] TypeOf(v) = "dict" -> DOMAIN Payload(v) # {}
    [] OTHER -> TRUE

\* isinstance(value, (int, long)): bool is a subclass of int.
IsInstanceInt(v) == TypeOf(v) \in {"int", "bool"}

\* A float occurs in the value, at any depth.
RECURSIVE HasFloat(_)
HasFloat(v) ==
  CASE TypeOf(v) = "float" -> TRUE
    [] TypeOf(v) = "list" ->
         \E i \in 1..Len(Payload(v)) : HasFloat(Payload(v)[i])
    [] TypeOf(v) = "dict" ->
         \E k \in DOMAIN Payload(v) : HasFloat(Payload(v)[k])
    [] OTHER -> FALSE

\* value == other, as Python 2 compares: numbers by value, a str with a
\* unicode by decoding the str as ASCII (a non-ASCII str equals no unicode).
Twice(v) ==
  CASE TypeOf(v) = "int" -> 2 * Payload(v)
    [] TypeOf(v) = "bool" -> IF Payload(v) THEN 2 ELSE 0
    [] OTHER -> Payload(v)

IsAscii(b) == \A i \in 1..Len(b) : b[i] < 128

RECURSIVE PyEq(_, _)
PyEq(a, b) ==
  LET Numbers == {"int", "bool", "float"}
      Texts == {"str", "unicode"}
  IN CASE TypeOf(a) \in Numbers /\ TypeOf(b) \in Numbers -> Twice(a) = Twice(b)
       [] TypeOf(a) \in Texts /\ TypeOf(b) \in Texts ->
            /\ Payload(a) = Payload(b)
            /\ TypeOf(a) # TypeOf(b) =>
                 IsAscii(Payload(a)) /\ IsAscii(Payload(b))
       [] TypeOf(a) = "name" /\ TypeOf(b) = "name" -> Payload(a) = Payload(b)
       [] TypeOf(a) = "list" /\ TypeOf(b) = "list" ->
            /\ Len(Payload(a)) = Len(Payload(b))
            /\ \A i \in 1..Len(Payload(a)) : PyEq(Payload(a)[i], Payload(b)[i])
       [] TypeOf(a) = "dict" /\ TypeOf(b) = "dict" ->
            /\ DOMAIN Payload(a) = DOMAIN Payload(b)
            /\ \A k \in DOMAIN Payload(a) : PyEq(Payload(a)[k], Payload(b)[k])
       [] OTHER -> FALSE

-----------------------------------------------------------------------------
(* The protobuf messages, as they are on the wire.                          *)
(* An EventObject message is [type, fields, attributes]: fields maps the    *)
(* names of the fixed fields that are set to their values, attributes is    *)
(* the repeated Attribute.  An Attribute or Value is <<key, field, payload>>:*)
(* key is <<>> when the key field is not set, field names the value field   *)
(* that is set ("none" when no value field is).                             *)

\* The fields of the EventObject message that the model's events use
\* (hasattr(proto, attribute_name)); source_short is handled before them.
FixedFields == {"timestamp"}

\* The SourceShort enum of plaso_storage.proto (the part the model uses).
SourceShortEnum == [n \in {"LOG", "REG"} |-> IF n = "LOG" THEN 6 ELSE 13]

\* dict.setdefault(key): a key that is absent is added with the value None;
\* a key that is present is left alone.  No default for other keys is set.
SetDefault(map, key) ==
  IF key \in DOMAIN map THEN map
  ELSE [k \in DOMAIN map \cup {key} |-> IF k = key THEN None ELSE map[k]]

_SOURCE_SHORT_TO_PROTO_MAP == SetDefault(SourceShortEnum, "LOG")

_SOURCE_SHORT_FROM_PROTO_MAP ==
  LET codes == {SourceShortEnum[n] : n \in DOMAIN SourceShortEnum}
  IN SetDefault([c \in codes |->
                   CHOOSE n \in DOMAIN SourceShortEnum : SourceShortEnum[n] = c],
                6)

\* utils.GetUnicodeString: a unicode is returned as it is, a str is decoded
\* as UTF-8 and the bytes that do not decode are left out.  The byte strings
\* of the model hold ASCII bytes and the byte 0xFF, which no UTF-8 text holds.
GetUnicodeString(v) ==
  IF TypeOf(v) = "unicode" THEN Payload(v)
  ELSE SelectSeq(Payload(v), LAMBDA b : b < 128)

\* What a helper gives when it raises instead of returning.
IsError(r) == Len(r) = 1
TypeError == <<"TypeError">>
RuntimeError == <<"RuntimeError">>
\* What ToProto gives when it raises: the exception in place of the message.
Raised(exception) == [type |-> exception]

\* value.items() of a mapping; the order of a dict is arbitrary and does not
\* reach the decoded mapping, the model takes the keys in this order.
KeyOrder == <<"a", "b">>
DictKeys(f) == SelectSeq(KeyOrder, LAMBDA k : k \in DOMAIN f)

\* EventObject._AttributeToProto: the Attribute (or Value) message for a
\* value, or the error the assignment to the message raises.  A dict or
\* array field merged from a message without entries is set all the same.
RECURSIVE _AttributeToProto(_, _)
_AttributeToProto(name, value) ==
  LET key == IF name # "" THEN <<name>> ELSE <<>>
  IN IF TypeOf(value) \in {"str", "unicode"}
     THEN <<key, "string", GetUnicodeString(value)>>
     ELSE IF IsInstanceInt(value)
     THEN \* an int64 field: True and False go on the wire as 1 and 0
          <<key, "integer", Twice(value) \div 2>>
     ELSE IF TypeOf(value) = "bool"
     THEN <<key, "boolean", Payload(value)>>
     ELSE IF TypeOf(value) = "dict"
     THEN LET keys == DictKeys(Payload(value))
              subs == [i \in 1..Len(keys) |->
                         _AttributeToProto(keys[i], Payload(value)[keys[i]])]
          IN IF \E i \in 1..Len(keys) : IsError(subs[i]) THEN TypeError
             ELSE <<key, "dict", subs>>
     ELSE IF TypeOf(value) = "list"
     THEN LET subs == [i \in 1..Len(Payload(value)) |->
                         _AttributeToProto("", Payload(value)[i])]
          IN IF \E i \in 1..Len(subs) : IsError(subs[i]) THEN TypeError
             ELSE <<key, "array", subs>>
     ELSE \* proto.data = value: a bytes field takes a str only, and a str
          \* never comes this far
          TypeError

\* EventObject.GetAttributes / EventContainer.GetAttributes
RECURSIVE GetAttributes(_)
GetAttributes(n) ==
  DOMAIN attributes[n]
    \cup (IF ParentIsTrue(n) THEN GetAttributes(parent_container[n]) ELSE {})

EmptyMessage ==
  [type |-> "EventObject", fields |-> NoAttributes, attributes |-> <<>>]

WithField(msg, name, v) ==
  [msg EXCEPT !.fields =
     [f \in DOMAIN @ \cup {name} |-> IF f = name THEN v ELSE @[f]]]

\* One round of the loop of ToProto: the message after attribute_name, or the
\* error raised.  No event of the model has a pathspec attribute, so the
\* branch for it is never taken and is left out.
ToProtoStep(self, msg, attribute_name) ==
  LET attribute_value == EventGetAttr(self, attribute_name)[2]
  IN IF attribute_name = "source_short"
     THEN IF Payload(attribute_value) \in DOMAIN _SOURCE_SHORT_TO_PROTO_MAP
          THEN WithField(msg, "source_short",
                         _SOURCE_SHORT_TO_PROTO_MAP[Payload(attribute_value)])
          ELSE Raised("KeyError")
     ELSE IF attribute_name \in FixedFields
     THEN WithField(msg, attribute_name, Payload(attribute_value))
     ELSE IF IsInstanceInt(attribute_value) \/ Truthy(attribute_value)
     THEN LET proto_attribute ==
                _AttributeToProto(attribute_name, attribute_value)
          IN IF IsError(proto_attribute) THEN Raised(proto_attribute[1])
             ELSE [msg EXCEPT !.attributes = Append(@, proto_attribute)]
     ELSE msg

IsMessage(m) == m.type = "EventObject"

RECURSIVE ToProtoLoop(_, _, _, _)
ToProtoLoop(self, order, i, msg) ==
  IF i > Len(order) THEN msg
  ELSE LET next == ToProtoStep(self, msg, order[i])
       IN IF IsMessage(next) THEN ToProtoLoop(self, order, i + 1, next)
          ELSE next

\* EventObject.ToProto, the set GetAttributes() being iterated in the order
\* given: the message, or the error raised.
ToProto(self, order) == ToProtoLoop(self, order, 1, EmptyMessage)

\* The orders in which a set can be iterated.
Orders(S) ==
  {o \in [1..Cardinality(S) -> S] : \A i, j \in 1..Cardinality(S) :
                                       i # j => o[i] # o[j]}

\* EventObject._AttributeFromProto: <<key, value>>, or the error raised.
RECURSIVE _AttributeFromProto(_)
_AttributeFromProto(p) ==
  LET key == IF p[1] # <<>> THEN p[1][1] ELSE ""
      field == p[2]
  IN IF field = "string" THEN <<key, UnicodeV(p[3])>>
     ELSE IF field = "integer" THEN <<key, IntV(p[3])>>
     ELSE IF field = "boolean" THEN <<key, BoolV(p[3])>>
     ELSE IF field = "dict"
     THEN LET subs == [i \in 1..Len(p[3]) |-> _AttributeFromProto(p[3][i])]
              keys == {subs[i][1] : i \in 1..Len(subs)}
          IN IF \E i \in 1..Len(subs) : IsError(subs[i]) THEN RuntimeError
             ELSE <<key, DictV([k \in keys |->
                     LET last == CHOOSE i \in 1..Len(subs) :
                           /\ subs[i][1] = k
                           /\ \A j \in (i + 1)..Len(subs) : subs[j][1] # k
                     IN subs[last][2]])>>
     ELSE IF field = "array"
     THEN LET subs == [i \in 1..Len(p[3]) |-> _AttributeFromProto(p[3][i])]
          IN IF \E i \in 1..Len(subs) : IsError(subs[i]) THEN RuntimeError
             ELSE <<key, ListV([i \in 1..Len(subs) |-> subs[i][2]])>>
     ELSE IF field = "data" THEN <<key, StrV(p[3])>>
     ELSE RuntimeError

\* The attribute store after the loop over proto.ListFields().
FixedFieldsStored(store, msg) ==
  [a \in DOMAIN store \cup DOMAIN msg.fields |->
     IF a \in DOMAIN msg.fields
     THEN IF a = "source_short"
          THEN NameV(_SOURCE_SHORT_FROM_PROTO_MAP[msg.fields[a]])
          ELSE IntV(msg.fields[a])
     ELSE store[a]]

\* store.update(dict(pairs)): of two pairs with one key the later one stays.
Updated(store, pairs) ==
  LET keys == {pairs[i][1] : i \in 1..Len(pairs)}
  IN [a \in DOMAIN store \cup keys |->
        IF a \in keys
        THEN LET last == CHOOSE i \in 1..Len(pairs) :
                   /\ pairs[i][1] = a
                   /\ \A j \in (i + 1)..Len(pairs) : pairs[j][1] # a
             IN pairs[last][2]
        ELSE store[a]]

\* EventObject.FromProto on an event whose attribute store is store:
\* <<the store afterwards, the exception raised or "">>.
FromProto(store, msg) ==
  IF msg.type # "EventObject" THEN <<store, "RuntimeError">>
  ELSE LET fixed == FixedFieldsStored(store, msg)
           pairs == [i \in 1..Len(msg.attributes) |->
                       _AttributeFromProto(msg.attributes[i])]
       IN IF \E i \in 1..Len(pairs) : IsError(pairs[i])
          THEN <<fixed, "RuntimeError">>
          ELSE <<Updated(fixed, pairs), "">>

-----------------------------------------------------------------------------
(* EventObject.__setattr__ for the timestamp of a new event *)

Position(e) == CHOOSE i \in 1..Len(EventOrder) : EventOrder[i] = e

\* event.timestamp = ts, as the constructors of the event classes do.  Events
\* are constructed in order, and only before they are appended.
SetTimestamp(e, ts) ==
  /\ ~HasLocal(e, "timestamp")
  /\ parent_container[e] = None
  /\ \A i \in 1..(Position(e) - 1) : HasLocal(EventOrder[i], "timestamp")
  /\ attributes' = [attributes EXCEPT ![e] = [a \in {"timestamp"} |-> IntV(ts)]]
  /\ call' = <<"SetValue", e, "timestamp">>
  /\ raised' = ""
  /\ UNCHANGED <<events, containers, first_timestamp, last_timestamp,
                 parent_container, nCalls, modified, proto>>

-----------------------------------------------------------------------------
(* The container tree: construction, then the calls *)

Init ==
  /\ events = [c \in ContainerIds |-> <<>>]
  /\ containers = [c \in ContainerIds |-> <<>>]
  /\ first_timestamp = [c \in ContainerIds |-> 0]
  /\ last_timestamp = [c \in ContainerIds |-> 0]
  /\ parent_container = [n \in Nodes |-> None]
  /\ attributes = [n \in Nodes |-> NoAttributes]
  /\ call = <<"init", None, None>>
  /\ raised = ""
  /\ nCalls = 0
  /\ modified = {}
  /\ proto = NoProto

Next ==
  \/ \E e \in EventIds, ts \in Timestamps : SetTimestamp(e, ts)
  \/ \E c \in ContainerIds, e \in EventIds : AppendEvent(c, e)
  \/ \E c \in ContainerIds, d \in ContainerIds : AppendContainer(c, d)
  \/ \E c \in ContainerIds : AppendOther(c)

Spec == Init /\ [][Next]_vars

-----------------------------------------------------------------------------
(* Attributes shared through the tree *)

\* node.x = v through __setattr__: x is no class attribute, so the value goes
\* to the node's own attribute store.
SetValue(n, attr, v) ==
  /\ attributes' = [attributes EXCEPT ![n] =
       [a \in DOMAIN @ \cup {attr} |-> IF a = attr THEN v ELSE @[a]]]
  /\ call' = <<"SetValue", n, attr>>
  /\ raised' = ""
  /\ UNCHANGED <<events, containers, first_timestamp, last_timestamp,
                 parent_container, nCalls, modified, proto>>

\* Every event was constructed with a timestamp; nothing is appended yet.
InitAttr ==
  /\ events = [c \in ContainerIds |-> <<>>]
  /\ containers = [c \in ContainerIds |-> <<>>]
  /\ first_timestamp = [c \in ContainerIds |-> 0]
  /\ last_timestamp = [c \in ContainerIds |-> 0]
  /\ parent_container = [n \in Nodes |-> None]
  /\ attributes = [n \in Nodes |->
       IF n \in EventIds THEN [a \in {"timestamp"} |-> IntV(Position(n))]
       ELSE NoAttributes]
  /\ call = <<"init", None, None>>
  /\ raised = ""
  /\ nCalls = 0
  /\ modified = {}
  /\ proto = NoProto

NextAttr ==
  \/ \E c \in ContainerIds, e \in EventIds : AppendEvent(c, e)
  \/ \E c \in ContainerIds, d \in ContainerIds : AppendContainer(c, d)
  \/ \E n \in AttrHolders, v \in SharedValues : SetValue(n, "x", v)

SpecAttr == InitAttr /\ [][NextAttr]_vars

-----------------------------------------------------------------------------
(* The containers under every Append that succeeds *)

\* As NextAttr, with no condition on the container that is appended.  The
\* events keep the timestamp they were constructed with, so item.timestamp
\* is found in the event and the parent is never asked.
NextCyclic ==
  \/ \E c \in ContainerIds, e \in EventIds : AppendEvent(c, e)
  \/ \E c \in ContainerIds, d \in ContainerIds : AppendAnyContainer(c, d)

SpecCyclic == InitAttr /\ [][NextCyclic]_vars


-----------------------------------------------------------------------------
(* The codec: an event is encoded, messages are decoded into another event  *)

MaxCodecCalls == 2

\* Attribute messages given to FromProto: one that decodes, and three whose
\* value field is missing at the top, in an array and in a dict.
GoodAttribute == << <<"x">>, "string", <<97>> >>
BadAttribute == << <<"y">>, "none", <<>> >>
BadInArray == << <<"y">>, "array", << << <<>>, "none", <<>> >> >> >>
BadInDict == << <<"y">>, "dict", << << <<"a">>, "none", <<>> >> >> >>

\* The messages given to FromProto besides the ones ToProto made: event
\* messages with a timestamp, and a message of another type.
InputMessages ==
  {[type |-> "EventObject", fields |-> [f \in {"timestamp"} |-> 7],
    attributes |-> as] :
     as \in {<<GoodAttribute>>, <<BadAttribute>>,
             <<GoodAttribute, BadAttribute>>, <<BadAttribute, GoodAttribute>>,
             <<GoodAttribute, BadInArray>>, <<BadInDict>>}}
    \cup {[type |-> "PathSpec", fields |-> NoAttributes, attributes |-> <<>>]}

\* proto = self.ToProto()
ToProtoCall(self, order) ==
  /\ nCalls < MaxCodecCalls
  /\ nCalls' = nCalls + 1
  /\ call' = <<"ToProto", self, "">>
  /\ LET r == ToProto(self, order)
     IN /\ proto' = IF IsMessage(r) THEN r ELSE proto
        /\ raised' = IF IsMessage(r) THEN "" ELSE r.type
  /\ UNCHANGED <<events, containers, first_timestamp, last_timestamp,
                 parent_container, attributes, modified>>

\* self.FromProto(msg); from tells where the message comes from.
FromProtoCall(self, msg, from) ==
  /\ nCalls < MaxCodecCalls
  /\ nCalls' = nCalls + 1
  /\ call' = <<"FromProto", self, from>>
  /\ LET r == FromProto(attributes[self], msg)
     IN /\ attributes' = [attributes EXCEPT ![self] = r[1]]
        /\ raised' = r[2]
  /\ UNCHANGED <<events, containers, first_timestamp, last_timestamp,
                 parent_container, modified, proto>>

\* The stores an event is constructed with: a timestamp, with or without a
\* source_short (in the enum or not) and a dynamic attribute x.
EventStores ==
  {[a \in {"timestamp"} \cup ss[1] \cup x[1] |->
      IF a = "timestamp" THEN IntV(t)
      ELSE IF a = "source_short" THEN ss[2] ELSE x[2]] :
     t \in {0, 1},
     ss \in {<<{}, None>>} \cup
            {<<{"source_short"}, NameV(n)>> : n \in {"LOG", "REG", "XYZ"}},
     x \in {<<{}, None>>} \cup {<<{"x"}, v>> : v \in Values}}

\* The stores of the container: nothing, or an attribute y for its events.
ContainerStores ==
  {NoAttributes} \cup {[a \in {"y"} |-> v] : v \in {UnicodeV(<<97>>)}}

\* e1 was constructed and appended to c1; e2 is a new EventObject.
InitCodec ==
  /\ \E store \in EventStores, shared \in ContainerStores :
       /\ attributes = [n \in Nodes |->
            IF n = "e1" THEN store ELSE IF n = "c1" THEN shared
            ELSE NoAttributes]
       /\ first_timestamp = [c \in ContainerIds |->
            IF c = "c1" THEN Payload(store["timestamp"]) ELSE 0]
       /\ last_timestamp = [c \in ContainerIds |->
            IF c = "c1" THEN Payload(store["timestamp"]) ELSE 0]
  /\ events = [c \in ContainerIds |-> IF c = "c1" THEN <<"e1">> ELSE <<>>]
  /\ containers = [c \in ContainerIds |-> <<>>]
  /\ parent_container = [n \in Nodes |-> IF n = "e1" THEN "c1" ELSE None]
  /\ call = <<"init", None, None>>
  /\ raised = ""
  /\ nCalls = 0
  /\ modified = {}
  /\ proto = NoProto

NextCodec ==
  \/ \E order \in Orders(GetAttributes("e1")) : ToProtoCall("e1", order)
  \/ IsMessage(proto) /\ FromProtoCall("e2", proto, "proto")
  \/ \E m \in InputMessages : FromProtoCall("e2", m, "input")

SpecCodec == InitCodec /\ [][NextCodec]_vars

-----------------------------------------------------------------------------
(* The claims about the container tree *)

NotAnError == "NotAnEventContainerOrObject"

InRange(c, e) ==
  /\ first_timestamp[c] <= TimestampOf(e)
  /\ TimestampOf(e) <= last_timestamp[c]

\* C1: after successful Append calls with integer timestamps, and with no
\* child container changed after it was appended, every event of the subtree
\* of a container lies between its first_timestamp and its last_timestamp.
C1_RangeCoversSubtree ==
  \A c \in ContainerIds :
    c \notin modified => \A e \in SubtreeEvents(c) : InRange(c, e)

\* Number of direct events of c with timestamp t.
CountTs(c, t) ==
  Cardinality({i \in 1..Len(events[c]) : TimestampOf(events[c][i]) = t})

\* C2: two containers that were given the same multiset of event timestamps,
\* in whatever order, have the same first_timestamp and last_timestamp.
C2_RangeOrderIndependent ==
  \A c, d \in ContainerIds :
    ( /\ containers[c] = <<>>
      /\ containers[d] = <<>>
      /\ \A t \in Timestamps : CountTs(c, t) = CountTs(d, t) )
    => /\ first_timestamp[c] = first_timestamp[d]
       /\ last_timestamp[c] = last_timestamp[d]

\* C3: at all times the first_timestamp and last_timestamp of every container
\* bound every event it transitively holds, also when an event is appended to
\* a container that already has a parent.
C3_RangeCoversSubtreeAlways ==
  \A c \in ContainerIds : \A e \in SubtreeEvents(c) : InRange(c, e)

\* The item is of neither class, or an event whose timestamp does not resolve.
InvalidItem(item) ==
  \/ item \notin EventIds \cup ContainerIds
  \/ item \in EventIds /\ ~IsOk(EventGetAttr(item, "timestamp"))

\* C4: Append of an item of neither class, or of an event without a
\* resolvable timestamp, raises NotAnEventContainerOrObject, and a call that
\* raises leaves events, containers, first_timestamp and last_timestamp as
\* they were.
C4_InvalidAppendRaisesAndKeepsState ==
  [][ (nCalls' # nCalls /\ call'[1] = "Append") =>
        /\ (InvalidItem(call'[3]) => raised' = NotAnError)
        /\ (raised' = NotAnError =>
              /\ events' = events
              /\ containers' = containers
              /\ first_timestamp' = first_timestamp
              /\ last_timestamp' = last_timestamp) ]_vars

\* An event without a timestamp was refused by a container that holds events
\* and has a range.
C4_Witness ==
  /\ raised = NotAnError
  /\ call[1] = "Append"
  /\ call[3] \in EventIds
  /\ events[call[2]] # <<>>
  /\ last_timestamp[call[2]] # 0

\* C5: a name that a node with a parent does not hold itself resolves on the
\* node exactly as it resolves on the parent: the same value, or
\* AttributeError on both.
C5_GetValueDelegatesToParent ==
  \A n \in Nodes :
    (parent_container[n] # None /\ ~HasLocal(n, "x"))
    => NodeGetValue(n, "x") = GetValue(parent_container[n], "x")

\* Occurrences of event e in the subtree of c, each appended container
\* counted as often as it was appended.
RECURSIVE Occurrences(_, _)
Occurrences(c, e) ==
  LET Direct == Cardinality({i \in 1..Len(events[c]) : events[c][i] = e})
      Below[i \in 0..Len(containers[c])] ==
        IF i = 0 THEN 0 ELSE Below[i - 1] + Occurrences(containers[c][i], e)
  IN Direct + Below[Len(containers[c])]

CountIn(seq, e) == Cardinality({i \in 1..Len(seq) : seq[i] = e})

\* C6: iteration over a container yields exactly the events of its subtree,
\* every occurrence once, in non-decreasing order of timestamp.
C6_IterationSortedAndComplete ==
  \A c \in ContainerIds : \A ord \in ObjectOrders :
    LET out == Iter(c, ord)
    IN /\ \A e \in EventIds : CountIn(out, e) = Occurrences(c, e)
       /\ \A i \in 1..(Len(out) - 1) :
            TimestampOf(out[i]) <= TimestampOf(out[i + 1])

\* Three events with three timestamps, two direct ones appended in descending
\* order and one in a child container.
C6_Witness ==
  \E c \in ContainerIds :
    /\ Len(events[c]) >= 2
    /\ TimestampOf(events[c][1]) > TimestampOf(events[c][2])
    /\ containers[c] # <<>>
    /\ Length(c) >= 3
    /\ \A t \in Timestamps : \E e \in SubtreeEvents(c) : TimestampOf(e) = t

-----------------------------------------------------------------------------
(* The claims about the codec *)

DefaultCode == 6

ResolvedValue(e, a) == EventGetAttr(e, a)[2]

\* The attributes of e that go to the repeated attributes of the message.
DynamicAttributes(e) == GetAttributes(e) \ (FixedFields \cup {"source_short"})

UnknownSourceShort(e) ==
  /\ "source_short" \in GetAttributes(e)
  /\ Payload(ResolvedValue(e, "source_short")) \notin DOMAIN SourceShortEnum

FloatAttribute(e) ==
  \E a \in DynamicAttributes(e) : HasFloat(ResolvedValue(e, a))

\* C7: encoding an event whose source_short is no name of the enum succeeds
\* and encodes the default code 6, which decodes to "LOG".
C7_UnknownSourceShortEncodesDefault ==
  ( /\ call[1] = "ToProto"
    /\ UnknownSourceShort(call[2])
    /\ ~FloatAttribute(call[2]) )
  => /\ raised = ""
     /\ "source_short" \in DOMAIN proto.fields
     /\ proto.fields["source_short"] = DefaultCode
     /\ _SOURCE_SHORT_FROM_PROTO_MAP[DefaultCode] = "LOG"

\* The event has a timestamp, a source_short of the enum if it has one, and
\* dynamic attributes of the value algebra.
Encodable(e) ==
  /\ "timestamp" \in GetAttributes(e)
  /\ ~UnknownSourceShort(e)
  /\ ~FloatAttribute(e)

\* The names the round trip keeps: all but the dynamic attributes whose value
\* is falsy and neither a boolean nor an integer.
Retained(e) ==
  {a \in GetAttributes(e) :
     \/ a \notin DynamicAttributes(e)
     \/ IsInstanceInt(ResolvedValue(e, a))
     \/ Truthy(ResolvedValue(e, a))}

\* C8: for an event with a timestamp, a source_short of the enum and dynamic
\* attributes of the value algebra, encoding succeeds and decoding the
\* message into a new event gives exactly the retained names, each with a
\* value equal to the original.
C8_RoundTrip ==
  [][ (nCalls' # nCalls /\ Encodable("e1")) =>
        /\ (call'[1] = "ToProto" => raised' = "")
        /\ ( ( /\ call' = <<"FromProto", "e2", "proto">>
               /\ attributes["e2"] = NoAttributes )
             => /\ raised' = ""
                /\ DOMAIN attributes'["e2"] = Retained("e1")
                /\ \A a \in Retained("e1") :
                     PyEq(attributes'["e2"][a], ResolvedValue("e1", a)) ) ]_vars

\* C9: a FromProto that raises leaves the attribute store of its event as it
\* was before the call.
C9_FailedDecodeStoresNothing ==
  [][ (nCalls' # nCalls /\ call'[1] = "FromProto" /\ raised' # "") =>
        attributes'[call'[2]] = attributes[call'[2]] ]_vars

\* C10: encoding an event that has a dynamic attribute holding a float, at
\* the top or nested, raises; the attribute is not dropped or coerced.
C10_FloatIsRefused ==
  ( /\ call[1] = "ToProto"
    /\ FloatAttribute(call[2])
    /\ ~UnknownSourceShort(call[2]) )
  => raised = "TypeError"

\* The wire field the value's type is encoded in.  A Python 2 str holds text
\* as well as bytes, so it is taken in either way: in the string field or in
\* the data field.
WireFields(v) ==
  CASE TypeOf(v) = "unicode" -> {"string"}
    [] TypeOf(v) = "str" -> {"string", "data"}
    [] TypeOf(v) = "int" -> {"integer"}
    [] TypeOf(v) = "bool" -> {"boolean"}
    [] TypeOf(v) = "dict" -> {"dict"}
    [] TypeOf(v) = "list" -> {"array"}
    [] OTHER -> {}

\* The decoded value is of the variant of the original; a str is text or
\* bytes.
SameVariant(decoded, v) ==
  \/ TypeOf(decoded) = TypeOf(v)
  \/ TypeOf(v) = "str" /\ TypeOf(decoded) = "unicode"

\* The TaggedValue tv carries the key, has the field of the type of v set,
\* holds one keyed entry per key of a mapping and one entry without a key per
\* item of a sequence, and decodes to a value of the variant of v.
RECURSIVE EncodedByType(_, _, _)
EncodedByType(tv, key, v) ==
  /\ tv[1] = key
  /\ tv[2] \in WireFields(v)
  /\ TypeOf(v) = "dict" =>
       /\ Len(tv[3]) = Cardinality(DOMAIN Payload(v))
       /\ \A k \in DOMAIN Payload(v) : \E i \in 1..Len(tv[3]) :
            EncodedByType(tv[3][i], <<k>>, Payload(v)[k])
  /\ TypeOf(v) = "list" =>
       /\ Len(tv[3]) = Len(Payload(v))
       /\ \A i \in 1..Len(tv[3]) :
            EncodedByType(tv[3][i], <<>>, Payload(v)[i])
  /\ LET decoded == _AttributeFromProto(tv)
     IN ~IsError(decoded) /\ SameVariant(decoded[2], v)

\* C11: after an encoding that succeeds, every dynamic attribute the message
\* keeps is a TaggedValue whose one field is the field of the value's type
\* (string, integer, boolean, data, dict with one keyed entry per key, array
\* with entries without keys), and decoding it gives a value of the same
\* variant.
C11_EncodingDispatchesOnType ==
  ( /\ call[1] = "ToProto"
    /\ raised = ""
    /\ ~FloatAttribute(call[2]) )
  => \A a \in DynamicAttributes(call[2]) \cap Retained(call[2]) :
       \E i \in 1..Len(proto.attributes) :
         EncodedByType(proto.attributes[i], <<a>>, ResolvedValue(call[2], a))

-----------------------------------------------------------------------------
(* The claim about cycles *)

\* __len__ and __iter__ of c call themselves on every child container: the
\* calls never come to an end when a container of the subtree of c is below
\* itself (Python then raises RuntimeError at the recursion limit).
RecursesForever(c) == \E d \in Subtree(c) : d \in Descendants(d)

\* C12: after any Append calls that succeeded, no container is reached from
\* itself through the child-container sequences, and the length and the
\* ordered iteration of every container come to an end.
C12_AppendKeepsTreeAcyclic ==
  \A c \in ContainerIds :
    /\ c \notin Descendants(c)
    /\ ~RecursesForever(c)

====
